---- MODULE Spec2Model ----
(***************************************************************************)
(* A model of the LADSPA bridge of ladspa.rs (src/src/ffi.rs): the process *)
(* wide descriptor registry with its exit hook, the marshaling of a port   *)
(* list into the flat descriptor, the per-instance handle with its port    *)
(* binding table, driven by a host, and the two example plugins.           *)
(***************************************************************************)
EXTENDS Integers, Sequences, FiniteSets, TLC

\* ------------------------------------------------------------------ bounds
\* The host probes plugin indices 0 .. MaxIndex-1.
MaxIndex == 3
\* The host instantiates at most MaxHandles instances.
MaxHandles == 1
\* The host owns buffers at addresses 1 .. NumPtrs.
NumPtrs == 2
\* At most MaxThreads host threads call ladspa_descriptor, once each.
MaxThreads == 2
\* run is called with sample counts 0 .. MaxSamples.
MaxSamples == 1
\* A marshaled port list has at most MaxPorts ports.
MaxPorts == 2
\* A port's bounds, when present, are among 0 .. MaxBound; so is the value
\* the host puts in the ring modulator's frequency control.
MaxBound == 1
\* The example plugins are made with this sample rate.
SampleRate == 1
\* The host sets the delay controls to 0 .. MaxDelay seconds.
MaxDelay == 1
\* The example plugins are run on blocks of 0 .. MaxBlock samples.
MaxBlock == 2
\* The example plugins process at most MaxProcessed samples per activation.
MaxProcessed == 2

\* examples/delay: const MAX_DELAY
MAX_DELAY == 5

\* ------------------------------------------------- ladspa_h port constants
PORT_INPUT == 1
PORT_OUTPUT == 2
PORT_CONTROL == 4
PORT_AUDIO == 8

\* ------------------------------------------------- ladspa_h hint constants
HINT_BOUNDED_BELOW == 1
HINT_BOUNDED_ABOVE == 2
HINT_TOGGLED == 4
HINT_SAMPLE_RATE == 8
HINT_LOGARITHMIC == 16
HINT_INTEGER == 32
HINT_DEFAULT_MINIMUM == 64
HINT_DEFAULT_LOW == 128
HINT_DEFAULT_MIDDLE == 192
HINT_DEFAULT_HIGH == 256
HINT_DEFAULT_MAXIMUM == 320
HINT_DEFAULT_0 == 512
HINT_DEFAULT_1 == 576
HINT_DEFAULT_100 == 640
HINT_DEFAULT_440 == 704

\* enum PortDescriptor: the discriminant of each variant (port.desc as i32).
PortDescriptor(kind) ==
    CASE kind = "AudioInput" -> PORT_AUDIO + PORT_INPUT
      [] kind = "AudioOutput" -> PORT_AUDIO + PORT_OUTPUT
      [] kind = "ControlInput" -> PORT_CONTROL + PORT_INPUT
      [] kind = "ControlOutput" -> PORT_CONTROL + PORT_OUTPUT
      [] OTHER -> 0

\* The null pointer.
NULL == 0
\* The address of the boxed registry table, once allocated.
TablePtr == 1

VARIABLES
    supported,     \* the indices the user's get_ladspa_descriptor answers with Some
    DESCRIPTORS,   \* static mut DESCRIPTORS: NULL or the address of the table
    table,         \* the Vec behind DESCRIPTORS: the cached descriptor records
    atexitCount,   \* how many times global_destruct was handed to atexit
    allocLog,      \* the allocations made by the bridge, in order
    freeLog,       \* the allocations freed by the bridge, in order
    exited,        \* the process has exited (the atexit hooks have run)
    crashed,       \* a panic has left an extern "C" function
    handles,       \* the instances created by instantiate, by handle
    lastOp,        \* the host call made last, with what it returned
    marshaling,    \* a port list and, once marshaled, its three flat arrays
    fixture,       \* the plugin object of an example plugin, with its host
    threads        \* the host threads inside ladspa_descriptor, statement by statement

vars == <<supported, DESCRIPTORS, table, atexitCount, allocLog, freeLog,
          exited, crashed, handles, lastOp, marshaling, fixture, threads>>

\* ---------------------------------------------------------- the user library
\* The port lists of the plugins of the user library: an audio input with
\* its control, an audio output, and a plugin with a port left at Port's
\* default kind.
LibraryPorts ==
    << <<"AudioInput", "ControlInput">>,
       <<"AudioOutput">>,
       <<"ControlOutput", "Invalid">> >>

\* The ports of the plugin the user library describes at an index.
UserPorts(index) == LibraryPorts[(index % Len(LibraryPorts)) + 1]

\* The PluginDescriptor the user library builds for an index.
UserDescriptor(index) == [unique_id |-> index, ports |-> UserPorts(index)]

\* What user code hands back: a value, nothing, or a panic that unwinds.
Some(x) == [tag |-> "some", val |-> x]
None == [tag |-> "none", val |-> 0]
Panic == [tag |-> "panic", val |-> 0]

\* The user's get_ladspa_descriptor(index): Some(descriptor) for the indices
\* the library supports, None for the others, unless it panics.
get_ladspa_descriptor(index, outcome) ==
    IF outcome = "panic" THEN Panic
    ELSE IF index \in supported THEN Some(UserDescriptor(index)) ELSE None

\* The code called with no catch_unwind around it: a panic unwinds on.
CallUncaught(res) == res

\* call_user_code!: the value of the code, None when it panicked.
call_user_code(res) == IF res.tag = "panic" THEN None ELSE res

\* ------------------------------------------------------- the descriptor registry
\* An allocation made for the registry: what it holds, for which descriptor
\* record (0 for the table itself), and which port's (0 when not per port).
Alloc(d, what, i) == [d |-> d, what |-> what, i |-> i]

\* Box::new(Vec::new()): the table behind DESCRIPTORS.
TableAlloc == Alloc(0, "table", 0)

\* The name string of each port, in port order.
PortNameAllocs(d, n) == [i \in 1..n |-> Alloc(d, "port_name", i)]

\* A boxed slice of n elements: no allocation when it is empty.
ArrayAlloc(d, what, n) == IF n > 0 THEN <<Alloc(d, what, 0)>> ELSE <<>>

\* The allocations made while marshaling a descriptor of n ports into the
\* record at address d, in the order of the struct literal's fields; the
\* record is boxed last.
MarshalAllocs(d, n) ==
    <<Alloc(d, "label", 0), Alloc(d, "name", 0), Alloc(d, "maker", 0),
      Alloc(d, "copyright", 0)>>
    \o ArrayAlloc(d, "port_descriptors", n)
    \o ArrayAlloc(d, "port_names", n)
    \o PortNameAllocs(d, n)
    \o ArrayAlloc(d, "port_range_hints", n)
    \o <<Alloc(d, "implementation_data", 0), Alloc(d, "record", 0)>>

\* The flat ladspa_h::Descriptor built from a PluginDescriptor, boxed at d.
Marshal(plugin, d) ==
    [ptr |-> d,
     unique_id |-> plugin.unique_id,
     port_count |-> Len(plugin.ports),
     port_descriptors |->
         [i \in 1..Len(plugin.ports) |-> PortDescriptor(plugin.ports[i])],
     implementation_data |-> plugin]

\* The address Box::new gives the next descriptor record: nothing is freed
\* before exit, so it differs from every record boxed so far.
NewDescPtr(t) == TablePtr + Len(t) + 1

\* A check that finds the registry uninitialized whatever it holds.
RegistryAlwaysFresh(D) == TRUE

\* if DESCRIPTORS == ptr::null_mut()
RegistryUninitialized(D) == D = NULL

\* The hook handed to atexit on every call, not only inside the null check.
AtexitEveryCall(fresh, registered) == registered + 1

\* libc::atexit(global_destruct), inside the null check: the registrations
\* made so far, after a call that found the registry fresh or not.
Atexit(fresh, registered) == IF fresh THEN registered + 1 ELSE registered

\* if (index as usize) < (*DESCRIPTORS).len()
IsCached(index, t) == index < Len(t)

\* (*DESCRIPTORS)[index as usize]
CachedAt(index, t) == t[index + 1]

\* A push that puts the new record in the first slot, moving the others up.
PushFront(t, desc) == <<desc>> \o t

\* (*DESCRIPTORS).push(desc)
Push(t, desc) == Append(t, desc)

\* What the host call before this one did to the same handle, when it is
\* one of: a fault in the plugin's run, activate or deactivate, or a port
\* bound again to another pointer.
Prior(h) ==
    IF lastOp.h # h THEN "none"
    ELSE IF lastOp.op \in {"run", "activate", "deactivate"} /\ lastOp.fault
         THEN IF lastOp.op = "run" THEN "run_fault" ELSE "fault"
    ELSE IF lastOp.op = "connect_port" /\ ~lastOp.fault
            /\ lastOp.result \notin {0, lastOp.ptr}
         THEN "rebind"
    ELSE "none"

\* Whether the host call before this one was a descriptor_for of the same
\* index in which the user's factory panicked.
PriorProbe(index) ==
    IF lastOp.op = "descriptor_for" /\ lastOp.arg = index /\ lastOp.fault
    THEN "fault" ELSE "none"

\* The record of a host call: the entry point, the handle and arguments it
\* was given, what it returned, whether user code was called and faulted,
\* the ports list run handed to the plugin, and what the call before did.
OpRecord(op, h, arg, ptr, result, called, fault, views, prior) ==
    [op |-> op, h |-> h, arg |-> arg, ptr |-> ptr, result |-> result,
     called |-> called, fault |-> fault, views |-> views, prior |-> prior]

\* The record of a host call made now: what the call before did is kept
\* for run and cleanup, and for descriptor_for.
Op(op, h, arg, ptr, result, called, fault, views) ==
    OpRecord(op, h, arg, ptr, result, called, fault, views,
             IF op \in {"run", "cleanup"} THEN Prior(h)
             ELSE IF op = "descriptor_for" THEN PriorProbe(arg)
             ELSE "none")

Running == ~exited /\ ~crashed

\* pub unsafe extern "C" fn ladspa_descriptor(index)
ladspa_descriptor(index, outcome) ==
    /\ Running
    /\ LET fresh == RegistryUninitialized(DESCRIPTORS)
           t == IF fresh THEN <<>> ELSE table
           allocs == IF fresh THEN Append(allocLog, TableAlloc) ELSE allocLog
       IN /\ DESCRIPTORS' = TablePtr
          /\ atexitCount' = Atexit(fresh, atexitCount)
          /\ IF IsCached(index, t)
             THEN /\ table' = t
                  /\ allocLog' = allocs
                  /\ crashed' = crashed
                  /\ lastOp' = Op("descriptor_for", 0, index, NULL,
                                  CachedAt(index, t).ptr, FALSE, FALSE, <<>>)
             ELSE LET r == call_user_code(get_ladspa_descriptor(index, outcome))
                      d == NewDescPtr(t)
                  IN CASE r.tag = "some" ->
                            /\ table' = Push(t, Marshal(r.val, d))
                            /\ allocLog' = allocs \o MarshalAllocs(d, Len(r.val.ports))
                            /\ crashed' = crashed
                            /\ lastOp' = Op("descriptor_for", 0, index, NULL, d,
                                            TRUE, FALSE, <<>>)
                       [] r.tag = "none" ->
                            /\ table' = t
                            /\ allocLog' = allocs
                            /\ crashed' = crashed
                            /\ lastOp' = Op("descriptor_for", 0, index, NULL, NULL,
                                            TRUE, outcome = "panic", <<>>)
                       [] OTHER ->
                            /\ table' = t
                            /\ allocLog' = allocs
                            /\ crashed' = TRUE
                            /\ lastOp' = Op("descriptor_for", 0, index, NULL, NULL,
                                            TRUE, TRUE, <<>>)
    /\ UNCHANGED <<supported, freeLog, exited, handles>>
    /\ UNCHANGED <<marshaling, fixture, threads>>

\* unsafe fn drop_descriptor(desc): what it frees, in order.
drop_descriptor(desc) ==
    <<Alloc(desc.ptr, "label", 0), Alloc(desc.ptr, "name", 0),
      Alloc(desc.ptr, "maker", 0), Alloc(desc.ptr, "copyright", 0)>>
    \o ArrayAlloc(desc.ptr, "port_descriptors", desc.port_count)
    \o PortNameAllocs(desc.ptr, desc.port_count)
    \o ArrayAlloc(desc.ptr, "port_names", desc.port_count)
    \o ArrayAlloc(desc.ptr, "port_range_hints", desc.port_count)
    \o <<Alloc(desc.ptr, "implementation_data", 0)>>

RECURSIVE DropAll(_)
\* for desc in descs.iter() { drop_descriptor(..) }
DropAll(t) == IF t = <<>> THEN <<>> ELSE drop_descriptor(Head(t)) \o DropAll(Tail(t))

\* extern "C" fn global_destruct(): every descriptor's allocations, then the
\* boxed table as descs goes out of scope.
global_destruct(t) == DropAll(t) \o <<TableAlloc>>

RECURSIVE RunHooks(_, _)
\* exit runs each function handed to atexit, once per registration.
RunHooks(n, t) == IF n = 0 THEN <<>> ELSE global_destruct(t) \o RunHooks(n - 1, t)

\* The process exits: the atexit hooks run.
Exit ==
    /\ Running
    /\ exited' = TRUE
    /\ freeLog' = freeLog \o RunHooks(atexitCount, table)
    /\ lastOp' = Op("exit", 0, 0, NULL, NULL, FALSE, FALSE, <<>>)
    /\ UNCHANGED <<supported, DESCRIPTORS, table, atexitCount, allocLog,
                   crashed, handles>>
    /\ UNCHANGED <<marshaling, fixture, threads>>

\* --------------------------------------------------------------- the instances
\* A slot of port_map with no connection in it.
Unbound == [kind |-> "Unbound", ptr |-> NULL, len |-> 0]

\* VecMap::new(), with room for the n declared port indices.
VecMapNew(n) == [k \in 0..(n - 1) |-> Unbound]

\* An insert that keeps the value a slot already has (entry().or_insert()).
VecMapInsertKeep(m, key, conn) ==
    IF m[key] # Unbound THEN m ELSE [m EXCEPT ![key] = conn]

\* VecMap::insert(key, value): the value takes the slot, whatever was there,
\* and the map grows to hold the key.
VecMapInsert(m, key, conn) ==
    [k \in DOMAIN m \cup {key} |-> IF k = key THEN conn ELSE m[k]]

\* VecMap::len(): the number of keys with a value.
VecMapLen(m) == Cardinality({k \in DOMAIN m : m[k] # Unbound})

RECURSIVE KeysFrom(_, _)
\* The keys with a value, from k up, in ascending order.
KeysFrom(m, k) ==
    IF k \notin DOMAIN m THEN <<>>
    ELSE (IF m[k] # Unbound THEN <<k>> ELSE <<>>) \o KeysFrom(m, k + 1)

RECURSIVE KeysDownFrom(_, _)
\* The keys with a value, from k down.
KeysDownFrom(m, k) ==
    IF k \notin DOMAIN m THEN <<>>
    ELSE (IF m[k] # Unbound THEN <<k>> ELSE <<>>) \o KeysDownFrom(m, k - 1)

\* The values collected from the last key to the first.
VecMapValuesDescending(m) == KeysDownFrom(m, Cardinality(DOMAIN m) - 1)

\* VecMap::values().collect(): a reference to each value, in key order. A
\* reference is the slot it points to: port_map is not reallocated while
\* references exist, since they are taken only once every slot is filled.
VecMapValues(m) == KeysFrom(m, 0)

\* A binding whose view starts one sample long.
PortDataUnit(kind, data_location) == [kind |-> kind, ptr |-> data_location, len |-> 1]

\* The PortData built for a port of the given kind at data_location: audio
\* ports get a slice of length 0, control ports a reference to the scalar.
PortData(kind, data_location) == [kind |-> kind, ptr |-> data_location, len |-> 0]

\* The ports list collected after every insert, with no length check.
RecomputeAlways(port_map, declared, ports) == VecMapValues(port_map)

\* if handle.port_map.len() == handle.descriptor.ports.len() { ports = values }
RecomputePorts(port_map, declared, ports) ==
    IF VecMapLen(port_map) = declared THEN VecMapValues(port_map) ELSE ports

\* The refresh with the AudioOutput arm of the match left out.
RefreshInputsOnly(conn, sample_count) ==
    IF conn.kind = "AudioInput" THEN [conn EXCEPT !.len = sample_count] ELSE conn

\* The slice of an audio port re-made at the same pointer with sample_count
\* elements; control ports are left as they are.
RefreshView(conn, sample_count) ==
    IF conn.kind \in {"AudioInput", "AudioOutput"}
    THEN [conn EXCEPT !.len = sample_count]
    ELSE conn

\* for (_, port) in handle.port_map.iter_mut() { .. }
RefreshAll(port_map, sample_count) ==
    [k \in DOMAIN port_map |->
        IF port_map[k] = Unbound THEN Unbound
        ELSE RefreshView(port_map[k], sample_count)]

\* &handle.ports as the plugin reads it: each reference followed to its slot.
PortsView(port_map, ports) == [j \in 1..Len(ports) |-> port_map[ports[j]]]

\* Box::new(Handle { descriptor, plugin, port_map: VecMap::new(), ports: Vec::new() })
\* supplied is the pointer the host gave last for each port.
NewHandle(rust_desc, rust_plugin) ==
    [alive |-> TRUE,
     descriptor |-> rust_desc,
     plugin |-> rust_plugin,
     port_map |-> VecMapNew(Len(rust_desc.ports)),
     ports |-> <<>>,
     supplied |-> [k \in 0..(Len(rust_desc.ports) - 1) |-> NULL]]

\* The allocations behind a handle: the plugin object the factory boxed and
\* the boxed Handle.
HandleAllocs(h) == <<Alloc(h, "plugin", 0), Alloc(h, "handle", 0)>>

\* The handle boxed before the factory's result is looked at.
BoxedAnyway(hs, rust_desc, r) == Append(hs, NewHandle(rust_desc, r.val))

\* The handles after instantiate: a new one boxed when the factory gave a
\* plugin, none when it gave nothing (return ptr::null_mut()).
Instantiated(hs, rust_desc, r) ==
    IF r.tag = "some" THEN Append(hs, NewHandle(rust_desc, r.val)) ELSE hs

\* The addresses of the descriptor records the host has been given.
KnownDescriptors == {table[i].ptr : i \in 1..Len(table)}

DescriptorAt(d) == CHOOSE desc \in {table[i] : i \in 1..Len(table)} : desc.ptr = d

\* The handles the host may still use.
Live == {h \in 1..Len(handles) : handles[h].alive}

\* One Handle kept for every instance: a write through any instance pointer
\* lands in all of them.
HandleWriteShared(hs, h, handle) == [i \in DOMAIN hs |-> handle]

\* let handle: &mut Handle = mem::transmute(instance): what is written
\* through it lands in the Handle the instance pointer points to.
HandleWrite(hs, h, handle) == [hs EXCEPT ![h] = handle]

\* An index past the end read without a bounds check, as whatever lies there.
PortAtUnchecked(ports, port_num) ==
    IF port_num < Len(ports) THEN ports[port_num + 1] ELSE "ControlInput"

\* handle.descriptor.ports[port_num as usize].desc: Vec indexing panics when
\* the index is not below the length.
PortAt(ports, port_num) ==
    IF port_num < Len(ports) THEN ports[port_num + 1] ELSE "OutOfBounds"

\* extern "C" fn instantiate(descriptor, sample_rate)
instantiate(d, outcome) ==
    /\ Running
    /\ Len(handles) < MaxHandles
    /\ LET rust_desc == DescriptorAt(d).implementation_data
           made == IF outcome = "panic" THEN Panic ELSE Some("boxed")
           r == call_user_code(made)
           h == Len(handles) + 1
       IN CASE r.tag = "some" ->
                 /\ handles' = Instantiated(handles, rust_desc, r)
                 /\ allocLog' = allocLog \o HandleAllocs(h)
                 /\ crashed' = crashed
                 /\ lastOp' = Op("instantiate", h, d, NULL, h, TRUE, FALSE, <<>>)
            [] r.tag = "none" ->
                 /\ handles' = Instantiated(handles, rust_desc, r)
                 /\ allocLog' = allocLog
                 /\ crashed' = crashed
                 /\ lastOp' = Op("instantiate", 0, d, NULL, NULL, TRUE, TRUE, <<>>)
            [] OTHER ->
                 /\ handles' = handles
                 /\ allocLog' = allocLog
                 /\ crashed' = TRUE
                 /\ lastOp' = Op("instantiate", 0, d, NULL, NULL, TRUE, TRUE, <<>>)
    /\ UNCHANGED <<supported, DESCRIPTORS, table, atexitCount, freeLog, exited>>
    /\ UNCHANGED <<marshaling, fixture, threads>>

\* extern "C" fn connect_port(instance, port_num, data_location)
connect_port(h, port_num, data_location) ==
    /\ Running
    /\ LET handle == handles[h]
           declared == Len(handle.descriptor.ports)
           kind == PortAt(handle.descriptor.ports, port_num)
       IN IF kind \in {"OutOfBounds", "Invalid"}
          THEN \* descriptor.ports[port_num] out of bounds, or
               \* panic!("Invalid port descriptor!"): nothing has been bound
               /\ crashed' = TRUE
               /\ handles' = handles
               /\ lastOp' = Op("connect_port", h, port_num, data_location, NULL,
                               FALSE, TRUE, <<>>)
          ELSE LET conn == PortData(kind, data_location)
                   port_map == VecMapInsert(handle.port_map, port_num, conn)
                   was == IF port_num \in DOMAIN handle.supplied
                          THEN handle.supplied[port_num] ELSE NULL
               IN /\ handles' = HandleWrite(handles, h,
                        [handle EXCEPT
                            !.port_map = port_map,
                            !.ports = RecomputePorts(port_map, declared, handle.ports),
                            !.supplied = [k \in DOMAIN handle.supplied \cup {port_num} |->
                                             IF k = port_num THEN data_location
                                             ELSE handle.supplied[k]]])
                  /\ crashed' = crashed
                  /\ lastOp' = Op("connect_port", h, port_num, data_location, was,
                                  FALSE, FALSE, <<>>)
    /\ UNCHANGED <<supported, DESCRIPTORS, table, atexitCount, allocLog,
                   freeLog, exited>>
    /\ UNCHANGED <<marshaling, fixture, threads>>

\* What a call into the plugin object gives back.
UserCall(outcome) == IF outcome = "panic" THEN Panic ELSE Some(0)

\* extern "C" fn run(instance, sample_count)
run(h, sample_count, outcome) ==
    /\ Running
    /\ LET handle == handles[h]
           port_map == RefreshAll(handle.port_map, sample_count)
           r == call_user_code(UserCall(outcome))
       IN /\ handles' = HandleWrite(handles, h, [handle EXCEPT !.port_map = port_map])
          /\ crashed' = (r.tag = "panic")
          /\ lastOp' = Op("run", h, sample_count, NULL, NULL, TRUE,
                          outcome = "panic", PortsView(port_map, handle.ports))
    /\ UNCHANGED <<supported, DESCRIPTORS, table, atexitCount, allocLog,
                   freeLog, exited>>
    /\ UNCHANGED <<marshaling, fixture, threads>>

\* extern "C" fn activate(instance) and deactivate(instance)
Forward(op, h, outcome) ==
    /\ Running
    /\ LET r == call_user_code(UserCall(outcome))
       IN /\ handles' = handles
          /\ crashed' = (r.tag = "panic")
          /\ lastOp' = Op(op, h, 0, NULL, NULL, TRUE, outcome = "panic", <<>>)
    /\ UNCHANGED <<supported, DESCRIPTORS, table, atexitCount, allocLog,
                   freeLog, exited>>
    /\ UNCHANGED <<marshaling, fixture, threads>>

activate(h, outcome) == Forward("activate", h, outcome)

deactivate(h, outcome) == Forward("deactivate", h, outcome)

\* What is left of a handle once its box is dropped.
Dropped(handle) ==
    [handle EXCEPT !.alive = FALSE, !.plugin = "dropped",
                   !.port_map = VecMapNew(Len(handle.descriptor.ports)),
                   !.ports = <<>>,
                   !.supplied = [k \in DOMAIN handle.supplied |-> NULL]]

\* A connection that owns the buffer it was bound to, and frees it.
DropConnectionOwned(conn) == <<Alloc(0, "host_buffer", conn.ptr)>>

\* Dropping a PortConnection: its PortData holds references and slices into
\* the host's buffers, and dropping a reference frees nothing.
DropConnection(conn) == <<>>

RECURSIVE DropPortMap(_, _)
\* Dropping port_map: each connection it holds, from key k up.
DropPortMap(m, k) ==
    IF k \notin DOMAIN m THEN <<>>
    ELSE (IF m[k] # Unbound THEN DropConnection(m[k]) ELSE <<>>)
         \o DropPortMap(m, k + 1)

\* Dropping Box<Handle>: the fields in declaration order (descriptor is a
\* &'static reference, ports a Vec of references), then the box itself.
DropHandle(h, handle) ==
    <<Alloc(h, "plugin", 0)>> \o DropPortMap(handle.port_map, 0)
    \o <<Alloc(h, "handle", 0)>>

\* extern "C" fn cleanup(instance)
cleanup(h) ==
    /\ Running
    /\ handles' = HandleWrite(handles, h, Dropped(handles[h]))
    /\ freeLog' = freeLog \o DropHandle(h, handles[h])
    /\ lastOp' = Op("cleanup", h, 0, NULL, NULL, FALSE, FALSE, <<>>)
    /\ UNCHANGED <<supported, DESCRIPTORS, table, atexitCount, allocLog,
                   exited, crashed>>
    /\ UNCHANGED <<marshaling, fixture, threads>>

\* ------------------------------------------------ ladspa_descriptor by threads
\* ladspa_descriptor taken a statement at a time, for host threads that call
\* it with no lock between them. Each thread is idle, at one of the
\* statements, or done; it keeps the index it was called with and the record
\* it has built. boxes holds every boxed table allocated, the k-th at address
\* k; overlap tells that a thread found the registry null while another,
\* having found the same, had not yet stored its table.
NoThreads == [pc |-> <<>>, index |-> <<>>, desc |-> <<>>, boxes |-> <<>>,
              built |-> 0, overlap |-> FALSE]

\* The threads in the window between the null check and the store.
Initializing == {u \in DOMAIN threads.pc : threads.pc[u] \in {"atexit", "alloc"}}

\* The address Box::new gives a descriptor record: past the boxed tables and
\* the records built so far.
ThreadDescPtr == MaxThreads + threads.built + 1

\* A thread enters ladspa_descriptor(index).
ThreadCall(t, index) ==
    /\ threads.pc[t] = "idle"
    /\ threads' = [threads EXCEPT !.pc[t] = "check", !.index[t] = index]
    /\ UNCHANGED <<supported, DESCRIPTORS, table, atexitCount, allocLog, freeLog,
                   exited, crashed, handles, lastOp, marshaling, fixture>>

\* if DESCRIPTORS == ptr::null_mut()
ThreadCheck(t) ==
    /\ threads.pc[t] = "check"
    /\ IF RegistryUninitialized(DESCRIPTORS)
       THEN threads' = [threads EXCEPT
                           !.pc[t] = "atexit",
                           !.overlap = threads.overlap \/ Initializing # {}]
       ELSE threads' = [threads EXCEPT !.pc[t] = "lookup"]
    /\ UNCHANGED <<supported, DESCRIPTORS, table, atexitCount, allocLog, freeLog,
                   exited, crashed, handles, lastOp, marshaling, fixture>>

\* libc::atexit(global_destruct)
ThreadAtexit(t) ==
    /\ threads.pc[t] = "atexit"
    /\ atexitCount' = atexitCount + 1
    /\ threads' = [threads EXCEPT !.pc[t] = "alloc"]
    /\ UNCHANGED <<supported, DESCRIPTORS, table, allocLog, freeLog,
                   exited, crashed, handles, lastOp, marshaling, fixture>>

\* DESCRIPTORS = mem::transmute(Box::new(Vec::new())): the new table takes
\* the place of whatever DESCRIPTORS pointed to.
ThreadAlloc(t) ==
    /\ threads.pc[t] = "alloc"
    /\ DESCRIPTORS' = Len(threads.boxes) + 1
    /\ table' = <<>>
    /\ threads' = [threads EXCEPT !.pc[t] = "lookup",
                                  !.boxes = Append(threads.boxes, <<>>)]
    /\ UNCHANGED <<supported, atexitCount, allocLog, freeLog,
                   exited, crashed, handles, lastOp, marshaling, fixture>>

\* if index < (*DESCRIPTORS).len() { return the cached record }
ThreadLookup(t) ==
    /\ threads.pc[t] = "lookup"
    /\ IF IsCached(threads.index[t], table)
       THEN /\ threads' = [threads EXCEPT !.pc[t] = "done"]
            /\ lastOp' = Op("descriptor_for", 0, threads.index[t], NULL,
                            CachedAt(threads.index[t], table).ptr, FALSE, FALSE, <<>>)
       ELSE /\ threads' = [threads EXCEPT !.pc[t] = "call"]
            /\ lastOp' = lastOp
    /\ UNCHANGED <<supported, DESCRIPTORS, table, atexitCount, allocLog, freeLog,
                   exited, crashed, handles, marshaling, fixture>>

\* call_user_code!(get_ladspa_descriptor(index)), and the record boxed from
\* what it gave, or the return of null.
ThreadBuild(t, outcome) ==
    /\ threads.pc[t] = "call"
    /\ LET r == call_user_code(get_ladspa_descriptor(threads.index[t], outcome))
       IN IF r.tag = "some"
          THEN /\ threads' = [threads EXCEPT
                                 !.pc[t] = "push",
                                 !.desc[t] = Marshal(r.val, ThreadDescPtr),
                                 !.built = threads.built + 1]
               /\ lastOp' = lastOp
          ELSE /\ threads' = [threads EXCEPT !.pc[t] = "done"]
               /\ lastOp' = Op("descriptor_for", 0, threads.index[t], NULL, NULL,
                               TRUE, outcome = "panic", <<>>)
    /\ UNCHANGED <<supported, DESCRIPTORS, table, atexitCount, allocLog, freeLog,
                   exited, crashed, handles, marshaling, fixture>>

\* (*DESCRIPTORS).push(desc); desc
ThreadPush(t) ==
    /\ threads.pc[t] = "push"
    /\ table' = Push(table, threads.desc[t])
    /\ threads' = [threads EXCEPT
                      !.pc[t] = "done",
                      !.boxes[DESCRIPTORS] = Push(table, threads.desc[t])]
    /\ lastOp' = Op("descriptor_for", 0, threads.index[t], NULL, threads.desc[t].ptr,
                    TRUE, FALSE, <<>>)
    /\ UNCHANGED <<supported, DESCRIPTORS, atexitCount, allocLog, freeLog,
                   exited, crashed, handles, marshaling, fixture>>

\* ------------------------------------------------------ marshaling the ports
RECURSIVE BitOr(_, _)
\* a | b on non-negative integers.
BitOr(a, b) ==
    IF a = 0 THEN b
    ELSE IF b = 0 THEN a
    ELSE (IF a % 2 = 1 \/ b % 2 = 1 THEN 1 ELSE 0) + 2 * BitOr(a \div 2, b \div 2)

RECURSIVE BitAnd(_, _)
\* a & b on non-negative integers.
BitAnd(a, b) ==
    IF a = 0 \/ b = 0 THEN 0
    ELSE (IF a % 2 = 1 /\ b % 2 = 1 THEN 1 ELSE 0) + 2 * BitAnd(a \div 2, b \div 2)

\* bitflags ControlHint: the bits of all four flags, and the values a
\* ControlHint can hold (its bits field is private to the bitflags type).
ControlHintAll ==
    BitOr(BitOr(HINT_TOGGLED, HINT_SAMPLE_RATE), BitOr(HINT_LOGARITHMIC, HINT_INTEGER))

ControlHint == {b \in 0..ControlHintAll : BitAnd(b, ControlHintAll) = b}

\* enum DefaultValue: the variants, and the discriminant of each (x as i32).
DefaultValues ==
    {"Minimum", "Low", "Middle", "High", "Maximum",
     "Value0", "Value1", "Value100", "Value440"}

DefaultValue(variant) ==
    CASE variant = "Minimum" -> HINT_DEFAULT_MINIMUM
      [] variant = "Low" -> HINT_DEFAULT_LOW
      [] variant = "Middle" -> HINT_DEFAULT_MIDDLE
      [] variant = "High" -> HINT_DEFAULT_HIGH
      [] variant = "Maximum" -> HINT_DEFAULT_MAXIMUM
      [] variant = "Value0" -> HINT_DEFAULT_0
      [] variant = "Value1" -> HINT_DEFAULT_1
      [] variant = "Value100" -> HINT_DEFAULT_100
      [] variant = "Value440" -> HINT_DEFAULT_440

\* An absent value read as 1.
UnwrapOrOne(opt, dflt) == IF opt.tag = "some" THEN opt.val ELSE 1

\* Option::unwrap_or
UnwrapOr(opt, dflt) == IF opt.tag = "some" THEN opt.val ELSE dflt

\* The bounded bit set for a bound that is not zero, absent or not.
BoundedBitIfNonzero(bound, bit) == IF UnwrapOr(bound, 0) # 0 THEN bit ELSE 0

\* port.lower_bound.map(|_| HINT_BOUNDED_BELOW).unwrap_or(0), and the same
\* for the upper bound: the bit when the bound is present, whatever it is.
BoundedBit(bound, bit) == IF bound.tag = "some" THEN bit ELSE 0

\* port.default.map(|x| x as i32)
DefaultBits(default) ==
    IF default.tag = "some" THEN Some(DefaultValue(default.val)) ELSE None

\* struct Port
Port(name, desc, hint, default, lower_bound, upper_bound) ==
    [name |-> name, desc |-> desc, hint |-> hint, default |-> default,
     lower_bound |-> lower_bound, upper_bound |-> upper_bound]

\* ladspa_h::PortRangeHint { hint_descriptor, lower_bound, upper_bound } as
\* ladspa_descriptor fills it in for a port.
PortRangeHint(port) ==
    [hint_descriptor |->
         BitOr(BitOr(BitOr(UnwrapOr(port.hint, 0),
                           UnwrapOr(DefaultBits(port.default), 0)),
                     BoundedBit(port.lower_bound, HINT_BOUNDED_BELOW)),
               BoundedBit(port.upper_bound, HINT_BOUNDED_ABOVE)),
     lower_bound |-> UnwrapOr(port.lower_bound, 0),
     upper_bound |-> UnwrapOr(port.upper_bound, 0)]

\* CString::new(name).unwrap().into_raw(): the bytes of the name and the
\* terminating zero (the names here hold no zero byte).
CString(name) == Append(name, 0)

\* port_count and the three per-port arrays of the flat descriptor, each
\* collected from plugin.ports.iter() in port order.
MarshalPorts(ports) ==
    [port_count |-> Len(ports),
     port_descriptors |-> [i \in 1..Len(ports) |-> PortDescriptor(ports[i].desc)],
     port_names |-> [i \in 1..Len(ports) |-> CString(ports[i].name)],
     port_range_hints |-> [i \in 1..Len(ports) |-> PortRangeHint(ports[i])]]

\* The ports of the ring modulator example.
RingModPorts ==
    <<Port(<<1>>, "AudioInput", None, None, None, None),
      Port(<<2>>, "AudioOutput", None, None, None, None),
      Port(<<3>>, "ControlInput",
           Some(BitOr(HINT_SAMPLE_RATE, HINT_LOGARITHMIC)), Some("Value440"),
           Some(0), Some(1))>>

\* The values a port's Option field can hold.
Option(S) == {None} \cup {Some(x) : x \in S}

\* The ports a plugin author can write.
Ports ==
    {Port(<<4>>, desc, hint, default, lower_bound, upper_bound) :
        desc \in {"Invalid", "AudioInput", "AudioOutput", "ControlInput", "ControlOutput"},
        hint \in Option(ControlHint),
        default \in Option(DefaultValues),
        lower_bound \in Option(0..MaxBound),
        upper_bound \in Option(0..MaxBound)}

\* The port lists marshaled here: none, or some of the ring modulator's
\* ports followed by any port.
PortLists ==
    {<<>>} \cup {SubSeq(RingModPorts, 1, n) \o <<port>> :
                    n \in 0..(MaxPorts - 1), port \in Ports}

\* No port list is being marshaled.
NotMarshaling == [ports |-> <<>>, flat |-> None]

\* ladspa_descriptor marshals the ports of the plugin the user gave it.
MarshalPortList ==
    /\ marshaling.flat = None
    /\ marshaling' = [marshaling EXCEPT !.flat = Some(MarshalPorts(marshaling.ports))]
    /\ UNCHANGED <<supported, DESCRIPTORS, table, atexitCount, allocLog, freeLog,
                   exited, crashed, handles, lastOp, fixture, threads>>

\* ---------------------------------------------------------- the example plugins
\* The host drives one instance of an example plugin with every port
\* connected, each to a buffer of its own. What the host keeps in its control
\* buffers, what it put in the audio inputs (inp) and what the last run wrote
\* to the audio outputs (out) are kept with the plugin object; history holds
\* the samples processed since the last activate, and reactivated tells that
\* samples had been processed before that activate.
NoFixture == [kind |-> "none"]

\* fn new_delay(_, sample_rate)
new_delay(sample_rate) == [sample_rate |-> sample_rate, buf |-> <<>>, buf_idx |-> 0]

\* An activate that refills the buffer and keeps the write index.
DelayActivateKeepIndex(self) ==
    [self EXCEPT !.buf = [k \in 1..(self.sample_rate * MAX_DELAY + 1) |-> <<0, 0>>]]

\* impl Plugin for Delay: fn activate(&mut self)
DelayActivate(self) ==
    [self EXCEPT !.buf = [k \in 1..(self.sample_rate * MAX_DELAY + 1) |-> <<0, 0>>],
                 !.buf_idx = 0]

RECURSIVE DelayLoop(_, _, _, _, _)
\* for i in 0..sample_count { .. } of Delay::run, from i on: the buffer and
\* the output block it leaves. c holds what the loop does not change.
DelayLoop(buf, output, i, sample_count, c) ==
    IF i >= sample_count THEN [buf |-> buf, output |-> output]
    ELSE LET input_sample == c.input[i + 1]
             buf_len == Len(buf)
             wet == <<buf[((c.buffer_read_idx[1] + i) % buf_len) + 1][1],
                      buf[((c.buffer_read_idx[2] + i) % buf_len) + 1][2]>>
             written == <<c.dry_wet[1] * wet[1] + input_sample[1] * (1 - c.dry_wet[1]),
                          c.dry_wet[2] * wet[2] + input_sample[2] * (1 - c.dry_wet[2])>>
         IN DelayLoop([buf EXCEPT ![((i + c.buf_idx) % buf_len) + 1] = input_sample],
                      Append(output, written), i + 1, sample_count, c)

\* impl Plugin for Delay: fn run(&mut self, sample_count, ports). The delay
\* controls are in seconds, dry_wet is 0 or 1. With an empty buffer (no
\* activate yet) the remainder by buf_len panics before anything is written.
DelayRun(self, sample_count, input, controls) ==
    IF Len(self.buf) = 0 THEN Panic
    ELSE LET delay == <<controls.delay[1] * self.sample_rate,
                        controls.delay[2] * self.sample_rate>>
             c == [input |-> input,
                   dry_wet |-> controls.dry_wet,
                   buf_idx |-> self.buf_idx,
                   buffer_read_idx |-> <<self.buf_idx + Len(self.buf) - delay[1],
                                         self.buf_idx + Len(self.buf) - delay[2]>>]
             done == DelayLoop(self.buf, <<>>, 0, sample_count, c)
         IN Some([self |-> [self EXCEPT
                               !.buf = done.buf,
                               !.buf_idx = (self.buf_idx + sample_count) % Len(self.buf)],
                  output |-> done.output])

\* fn new_ringmod(_, sample_rate)
new_ringmod(sample_rate) == [time |-> 0, sample_rate |-> sample_rate]

\* impl Plugin for RingMod: fn activate(&mut self)
RingModActivate(self) == [self EXCEPT !.time = 0]

\* input * (2.0*3.14159*freq*time).sin(), time in samples over sample_rate:
\* the product is kept as the term of its arguments.
Modulate(input, freq, time, sample_rate) == <<input, freq, time, sample_rate>>

\* impl Plugin for RingMod: fn run(&mut self, sample_count, ports)
RingModRun(self, sample_count, input, controls) ==
    Some([self |-> [self EXCEPT !.time = self.time + sample_count],
          output |-> [i \in 1..sample_count |->
                         Modulate(input[i], controls.freq, (i - 1) + self.time,
                                  self.sample_rate)]])

\* handle.plugin.activate(), by the kind of plugin behind the handle.
PluginActivate(kind, self) ==
    IF kind = "delay" THEN DelayActivate(self) ELSE RingModActivate(self)

\* handle.plugin.run(sample_count, &handle.ports)
PluginRun(kind, self, sample_count, input, controls) ==
    IF kind = "delay" THEN DelayRun(self, sample_count, input, controls)
    ELSE RingModRun(self, sample_count, input, controls)

\* The instance of an example plugin as instantiate leaves it.
NewFixture(kind, controls) ==
    [kind |-> kind,
     plugin |-> IF kind = "delay" THEN new_delay(SampleRate) ELSE new_ringmod(SampleRate),
     activated |-> FALSE,
     reactivated |-> FALSE,
     history |-> <<>>,
     controls |-> controls,
     inp |-> <<>>,
     out |-> <<>>]

\* What the host can put in the audio inputs and in the controls: a sample
\* is silence or a unit.
Samples == {0, 1}

Inputs(kind, sample_count) ==
    IF kind = "delay" THEN [1..sample_count -> Samples \X Samples]
    ELSE [1..sample_count -> Samples]

Controls(kind) ==
    IF kind = "delay"
    THEN [delay : (0..MaxDelay) \X (0..MaxDelay), dry_wet : {0, 1} \X {0, 1}]
    ELSE [freq : 0..MaxBound]

\* extern "C" fn activate(instance), on the example's instance
FixtureActivate ==
    /\ fixture.kind # "none"
    /\ LET r == call_user_code(Some(PluginActivate(fixture.kind, fixture.plugin)))
       IN /\ fixture' = [fixture EXCEPT
                            !.plugin = r.val,
                            !.activated = TRUE,
                            !.reactivated = (fixture.history # <<>>),
                            !.history = <<>>,
                            !.inp = <<>>,
                            !.out = <<>>]
          /\ lastOp' = Op("activate", 1, 0, NULL, NULL, TRUE, FALSE, <<>>)
    /\ UNCHANGED <<supported, DESCRIPTORS, table, atexitCount, allocLog, freeLog,
                   exited, crashed, handles, marshaling, threads>>

\* extern "C" fn run(instance, sample_count), on the example's instance:
\* the audio views are re-made with sample_count samples, then the plugin
\* runs on them.
FixtureRun(sample_count, input) ==
    /\ fixture.kind # "none"
    /\ Len(fixture.history) + sample_count <= MaxProcessed
    /\ LET r == call_user_code(PluginRun(fixture.kind, fixture.plugin,
                                         sample_count, input, fixture.controls))
       IN IF r.tag = "some"
          THEN /\ fixture' = [fixture EXCEPT
                                 !.plugin = r.val.self,
                                 !.history = fixture.history \o input,
                                 !.inp = input,
                                 !.out = r.val.output]
               /\ lastOp' = Op("run", 1, sample_count, NULL, NULL, TRUE, FALSE, <<>>)
          ELSE /\ fixture' = [fixture EXCEPT
                                 !.inp = input,
                                 !.out = <<>>]
               /\ lastOp' = Op("run", 1, sample_count, NULL, NULL, TRUE, TRUE, <<>>)
    /\ UNCHANGED <<supported, DESCRIPTORS, table, atexitCount, allocLog, freeLog,
                   exited, crashed, handles, marshaling, threads>>

\* extern "C" fn deactivate(instance), on the example's instance: neither
\* example overrides Plugin::deactivate, which does nothing.
FixtureDeactivate ==
    /\ fixture.kind # "none"
    /\ fixture' = fixture
    /\ lastOp' = Op("deactivate", 1, 0, NULL, NULL, TRUE, FALSE, <<>>)
    /\ UNCHANGED <<supported, DESCRIPTORS, table, atexitCount, allocLog, freeLog,
                   exited, crashed, handles, marshaling, threads>>

\* ------------------------------------------------------------ the specification
Outcomes == {"ok", "panic"}

NoOp == [op |-> "none", h |-> 0, arg |-> 0, ptr |-> NULL, result |-> NULL,
         called |-> FALSE, fault |-> FALSE, views |-> <<>>, prior |-> "none"]

\* The process as loaded: nothing probed, nothing instantiated. The user
\* library answers for some set of indices.
Init ==
    /\ supported \in SUBSET (0..(MaxIndex - 1))
    /\ DESCRIPTORS = NULL
    /\ table = <<>>
    /\ atexitCount = 0
    /\ allocLog = <<>>
    /\ freeLog = <<>>
    /\ exited = FALSE
    /\ crashed = FALSE
    /\ handles = <<>>
    /\ lastOp = NoOp
    /\ marshaling = NotMarshaling
    /\ threads = NoThreads
    /\ fixture = NoFixture

\* The host looks descriptors up, and the process exits.
NextRegistry ==
    \/ \E index \in 0..(MaxIndex - 1), outcome \in Outcomes :
           ladspa_descriptor(index, outcome)
    \/ Exit

\* The host creates and drives instances.
NextInstance ==
    \/ \E d \in KnownDescriptors, outcome \in Outcomes : instantiate(d, outcome)
    \/ \E h \in Live : \E port_num \in 0..Len(handles[h].descriptor.ports),
                          data_location \in 1..NumPtrs :
           connect_port(h, port_num, data_location)
    \/ \E h \in Live, sample_count \in 0..MaxSamples, outcome \in Outcomes :
           run(h, sample_count, outcome)
    \/ \E h \in Live, outcome \in Outcomes : activate(h, outcome)
    \/ \E h \in Live, outcome \in Outcomes : deactivate(h, outcome)
    \/ \E h \in Live : cleanup(h)

Next == NextRegistry \/ NextInstance

\* The whole program.
Spec == Init /\ [][Next]_vars

\* The registry alone, from the process as loaded.
SpecRegistry == Init /\ [][NextRegistry]_vars

\* The number of plugins the host has probed before it instantiates: one of
\* each kind the library has.
Probed == Len(LibraryPorts)

RECURSIVE ProbedAllocs(_)
\* The allocations made by probing indices 0 .. n-1 in turn.
ProbedAllocs(n) ==
    IF n = 0 THEN <<TableAlloc>>
    ELSE ProbedAllocs(n - 1)
         \o MarshalAllocs(TablePtr + n, Len(UserPorts(n - 1)))

\* The process once the host has probed indices 0 .. Probed-1 in turn of a
\* library that answers for every index: where a host starts instantiating.
InitProbed ==
    /\ supported = 0..(MaxIndex - 1)
    /\ DESCRIPTORS = TablePtr
    /\ table = [i \in 1..Probed |-> Marshal(UserDescriptor(i - 1), TablePtr + i)]
    /\ atexitCount = 1
    /\ allocLog = ProbedAllocs(Probed)
    /\ freeLog = <<>>
    /\ exited = FALSE
    /\ crashed = FALSE
    /\ handles = <<>>
    /\ lastOp = OpRecord("descriptor_for", 0, Probed - 1, NULL, TablePtr + Probed,
                         TRUE, FALSE, <<>>, "none")
    /\ marshaling = NotMarshaling
    /\ threads = NoThreads
    /\ fixture = NoFixture

\* The instances alone, on a registry the host has filled.
SpecInstance == InitProbed /\ [][NextInstance]_vars

\* The process once the host has, after probing, made two instances, of the
\* same descriptor or of two.
InitPair ==
    /\ supported = 0..(MaxIndex - 1)
    /\ DESCRIPTORS = TablePtr
    /\ table = [i \in 1..Probed |-> Marshal(UserDescriptor(i - 1), TablePtr + i)]
    /\ atexitCount = 1
    /\ allocLog = ProbedAllocs(Probed) \o HandleAllocs(1) \o HandleAllocs(2)
    /\ freeLog = <<>>
    /\ exited = FALSE
    /\ crashed = FALSE
    /\ \E i, j \in 1..Probed :
          /\ handles = <<NewHandle(table[i].implementation_data, "boxed"),
                         NewHandle(table[j].implementation_data, "boxed")>>
          /\ lastOp = OpRecord("instantiate", 2, table[j].ptr, NULL, 2,
                                TRUE, FALSE, <<>>, "none")
    /\ marshaling = NotMarshaling
    /\ threads = NoThreads
    /\ fixture = NoFixture

\* The host drives the instances it has.
NextPair ==
    \/ \E h \in Live : \E port_num \in 0..Len(handles[h].descriptor.ports),
                          data_location \in 1..NumPtrs :
           connect_port(h, port_num, data_location)
    \/ \E h \in Live, sample_count \in 0..MaxSamples, outcome \in Outcomes :
           run(h, sample_count, outcome)
    \/ \E h \in Live, outcome \in Outcomes : activate(h, outcome)
    \/ \E h \in Live, outcome \in Outcomes : deactivate(h, outcome)
    \/ \E h \in Live : cleanup(h)

\* Two instances side by side.
SpecPair == InitPair /\ [][NextPair]_vars

\* An instance of an example plugin, made and fully connected, the host's
\* control buffers holding the values it has chosen.
InitFixture ==
    /\ supported = 0..(MaxIndex - 1)
    /\ DESCRIPTORS = NULL
    /\ table = <<>>
    /\ atexitCount = 0
    /\ allocLog = <<>>
    /\ freeLog = <<>>
    /\ exited = FALSE
    /\ crashed = FALSE
    /\ handles = <<>>
    /\ lastOp = NoOp
    /\ marshaling = NotMarshaling
    /\ threads = NoThreads
    /\ \E kind \in {"delay", "ringmod"} :
          \E controls \in Controls(kind) : fixture = NewFixture(kind, controls)

NextFixture ==
    \/ FixtureActivate
    \/ \E sample_count \in 0..MaxBlock :
          \E input \in Inputs(fixture.kind, sample_count) :
              FixtureRun(sample_count, input)
    \/ FixtureDeactivate

\* The example plugins behind the bridge.
SpecFixture == InitFixture /\ [][NextFixture]_vars

\* The process as loaded, with a library that answers for every index probed.
InitFrame == Init /\ supported = 0..(MaxIndex - 1)

\* The host probing the library while it uses instances: every call of the
\* interface, the host asking for the indices in turn (any index it has been
\* answered for, or the next one), the plugin's code returning normally from
\* the calls made on an instance, and the host binding declared ports to one
\* buffer.
NextFrame ==
    \/ \E index \in {i \in 0..(MaxIndex - 1) : i <= Len(table)}, outcome \in Outcomes :
           ladspa_descriptor(index, outcome)
    \/ \E d \in KnownDescriptors : instantiate(d, "ok")
    \/ \E h \in Live : \E port_num \in 0..(Len(handles[h].descriptor.ports) - 1) :
           connect_port(h, port_num, 1)
    \/ \E h \in Live : run(h, 1, "ok")
    \/ \E h \in Live : activate(h, "ok")
    \/ \E h \in Live : deactivate(h, "ok")
    \/ \E h \in Live : cleanup(h)

SpecFrame == InitFrame /\ [][NextFrame]_vars

\* The process as loaded, with one host thread or several about to call
\* ladspa_descriptor.
InitThreads ==
    /\ supported \in SUBSET (0..(MaxIndex - 1))
    /\ DESCRIPTORS = NULL
    /\ table = <<>>
    /\ atexitCount = 0
    /\ allocLog = <<>>
    /\ freeLog = <<>>
    /\ exited = FALSE
    /\ crashed = FALSE
    /\ handles = <<>>
    /\ lastOp = NoOp
    /\ marshaling = NotMarshaling
    /\ fixture = NoFixture
    /\ \E n \in 1..MaxThreads :
          threads = [NoThreads EXCEPT !.pc = [t \in 1..n |-> "idle"],
                                      !.index = [t \in 1..n |-> 0],
                                      !.desc = [t \in 1..n |-> None]]

NextThreads ==
    \/ \E t \in DOMAIN threads.pc, index \in 0..(MaxIndex - 1) : ThreadCall(t, index)
    \/ \E t \in DOMAIN threads.pc : ThreadCheck(t)
    \/ \E t \in DOMAIN threads.pc : ThreadAtexit(t)
    \/ \E t \in DOMAIN threads.pc : ThreadAlloc(t)
    \/ \E t \in DOMAIN threads.pc : ThreadLookup(t)
    \/ \E t \in DOMAIN threads.pc, outcome \in Outcomes : ThreadBuild(t, outcome)
    \/ \E t \in DOMAIN threads.pc : ThreadPush(t)

\* The first calls of ladspa_descriptor, by threads that take no lock.
SpecThreads == InitThreads /\ [][NextThreads]_vars

\* The user library hands over a plugin with some port list.
InitMarshal ==
    /\ supported = 0..(MaxIndex - 1)
    /\ DESCRIPTORS = NULL
    /\ table = <<>>
    /\ atexitCount = 0
    /\ allocLog = <<>>
    /\ freeLog = <<>>
    /\ exited = FALSE
    /\ crashed = FALSE
    /\ handles = <<>>
    /\ lastOp = NoOp
    /\ marshaling \in {[ports |-> ports, flat |-> None] : ports \in PortLists}
    /\ threads = NoThreads
    /\ fixture = NoFixture

NextMarshal == MarshalPortList

\* The marshaling of port lists alone.
SpecMarshal == InitMarshal /\ [][NextMarshal]_vars

\* ------------------------------------------------------------------ the claims
\* How often x occurs in a sequence.
Count(x, seq) == Cardinality({i \in 1..Len(seq) : seq[i] = x})

\* The ports of a handle that hold a connection.
BoundPorts(handle) == {k \in DOMAIN handle.port_map : handle.port_map[k] # Unbound}

AudioKinds == {"AudioInput", "AudioOutput"}

\* The library answers for the indices below some count and for no other.
ContiguousLibrary == \E n \in 0..MaxIndex : supported = 0..(n - 1)

\* C1: two descriptor_for calls in a row with the same index return the same
\* pointer (both null or both the same record), whatever was probed before;
\* stated for a library that answers for the indices below a count, and for
\* calls whose user factory did not panic.
C1_CacheStable ==
    [][(/\ ContiguousLibrary
        /\ lastOp.op = "descriptor_for" /\ lastOp'.op = "descriptor_for"
        /\ lastOp'.arg = lastOp.arg
        /\ ~lastOp.fault /\ ~lastOp'.fault)
       => lastOp'.result = lastOp.result]_vars

\* C2: a non-null result of descriptor_for(i) is the marshaled form of the
\* descriptor the user factory gives for index i, in whatever order the host
\* probes; stated for a library that answers for the indices below a count.
C2_ReturnsNth ==
    (ContiguousLibrary /\ lastOp.op = "descriptor_for" /\ lastOp.result # NULL)
    => /\ lastOp.arg \in supported
       /\ DescriptorAt(lastOp.result)
              = Marshal(UserDescriptor(lastOp.arg), lastOp.result)

\* C3: for an index the user factory gives no descriptor for, descriptor_for
\* returns null, has asked the factory, and the registry holds no entry made
\* for that index.
C3_DeclinedIsNull ==
    (lastOp.op = "descriptor_for" /\ lastOp.arg \notin supported)
    => /\ lastOp.result = NULL
       /\ lastOp.called
       /\ \A i \in 1..Len(table) : table[i].unique_id # lastOp.arg

\* C4: the binding table holds, for each port, one connection, over the
\* pointer the host supplied last with a fresh view; after connect_port the
\* slot is exactly the new connection; and every view run hands the plugin
\* is over the pointer supplied last for its port.
C4_RebindReplaces ==
    /\ \A h \in Live : \A k \in DOMAIN handles[h].port_map :
           handles[h].port_map[k].ptr = handles[h].supplied[k]
    /\ (lastOp.op = "connect_port" /\ ~lastOp.fault)
       => handles[lastOp.h].port_map[lastOp.arg]
              = [kind |-> handles[lastOp.h].descriptor.ports[lastOp.arg + 1],
                 ptr |-> lastOp.ptr, len |-> 0]
    /\ lastOp.op = "run"
       => \A j \in 1..Len(lastOp.views) :
              lastOp.views[j].ptr
                  = handles[lastOp.h].supplied[handles[lastOp.h].ports[j]]

\* C4 happens: a run right after a port was bound again to another pointer,
\* with the ports list exposed.
C4_Witness ==
    /\ lastOp.op = "run" /\ lastOp.prior = "rebind"
    /\ lastOp.views # <<>>

\* C5: while some declared port of a handle has never been bound its ports
\* list is empty, the list is never partial, and a run dispatched then hands
\* the plugin an empty list.
C5_PortsEmptyUntilComplete ==
    /\ \A h \in Live :
           /\ (\E k \in DOMAIN handles[h].supplied : handles[h].supplied[k] = NULL)
              => handles[h].ports = <<>>
           /\ Len(handles[h].ports) \in {0, Len(handles[h].descriptor.ports)}
    /\ (/\ lastOp.op = "run"
        /\ \E k \in DOMAIN handles[lastOp.h].supplied :
               handles[lastOp.h].supplied[k] = NULL)
       => lastOp.views = <<>>

\* C5 happens: a run dispatched with one port bound and another not.
C5_Witness ==
    /\ lastOp.op = "run"
    /\ lastOp.views = <<>>
    /\ \E k \in DOMAIN handles[lastOp.h].supplied : handles[lastOp.h].supplied[k] = NULL
    /\ \E k \in DOMAIN handles[lastOp.h].supplied : handles[lastOp.h].supplied[k] # NULL

\* C6: after run(n) has dispatched, every bound audio port's view is over
\* the pointer bound to it with length n, in the binding table and in the
\* list the plugin was handed.
C6_ViewsRefreshed ==
    lastOp.op = "run"
    => /\ \A k \in BoundPorts(handles[lastOp.h]) :
              handles[lastOp.h].port_map[k].kind \in AudioKinds
              => /\ handles[lastOp.h].port_map[k].len = lastOp.arg
                 /\ handles[lastOp.h].port_map[k].ptr = handles[lastOp.h].supplied[k]
       /\ \A j \in 1..Len(lastOp.views) :
              lastOp.views[j].kind \in AudioKinds
              => lastOp.views[j].len = lastOp.arg

\* C6 happens: the plugin was handed an audio view of a nonzero length, the
\* sample count of the call.
C6_Witness ==
    /\ lastOp.op = "run" /\ lastOp.arg > 0
    /\ \E j \in 1..Len(lastOp.views) :
           /\ lastOp.views[j].kind \in AudioKinds
           /\ lastOp.views[j].len = lastOp.arg

\* C7: a run whose plugin code panicked returns to the host with the handle
\* intact, and the cleanup that follows it drops the handle without a fault.
C7_RunFaultContained ==
    /\ (lastOp.op = "run" /\ lastOp.fault)
       => /\ ~crashed
          /\ handles[lastOp.h].alive
          /\ handles[lastOp.h].plugin = "boxed"
    /\ (lastOp.op = "cleanup" /\ lastOp.prior = "run_fault")
       => /\ ~crashed
          /\ ~handles[lastOp.h].alive
          /\ handles[lastOp.h].plugin = "dropped"

\* C7 happens: cleanup has run right after a run whose plugin code panicked.
C7_Witness ==
    /\ lastOp.op = "cleanup" /\ lastOp.prior = "run_fault"
    /\ ~crashed

\* C8: an instantiate whose factory panicked returns null and leaves the
\* handles as they were; one whose factory succeeded returns a new handle
\* with an empty binding table and an empty ports list.
C8_InstantiateFault ==
    [][lastOp'.op = "instantiate"
       => IF lastOp'.fault
          THEN /\ lastOp'.result = NULL
               /\ handles' = handles
               /\ ~crashed'
          ELSE /\ lastOp'.result = Len(handles) + 1
               /\ Len(handles') = Len(handles) + 1
               /\ handles'[lastOp'.result].alive
               /\ BoundPorts(handles'[lastOp'.result]) = {}
               /\ handles'[lastOp'.result].ports = <<>>]_vars

\* C8 happens: instantiate has returned null after a factory panic, and no
\* handle exists.
C8_Witness ==
    /\ lastOp.op = "instantiate" /\ lastOp.fault
    /\ lastOp.result = NULL
    /\ handles = <<>>

\* C9: once the exit hook has run, every allocation made for the registry
\* has been freed exactly once, and nothing else has been freed.
C9_FreedExactlyOnce ==
    exited
    => /\ \A i \in 1..Len(allocLog) : Count(allocLog[i], freeLog) = 1
       /\ \A i \in 1..Len(freeLog) : Count(freeLog[i], allocLog) = 1

\* C10: the exit hook is registered once if the registry is initialized and
\* not at all if it is not, and only by the descriptor_for call that
\* initializes the registry.
C10_HookOnce ==
    /\ [](atexitCount = IF DESCRIPTORS = NULL THEN 0 ELSE 1)
    /\ [](lastOp.op = "none" => atexitCount = 0)
    /\ [][atexitCount' # atexitCount
          => /\ lastOp'.op = "descriptor_for"
             /\ DESCRIPTORS = NULL /\ DESCRIPTORS' # NULL
             /\ atexitCount' = atexitCount + 1]_vars

\* C10 happens: descriptor_for has been called again on an initialized
\* registry that holds descriptors, and the hook is registered once.
C10_Witness ==
    /\ lastOp.op = "descriptor_for" /\ ~lastOp.called
    /\ Len(table) >= 2
    /\ atexitCount = 1

\* What a reader of the flat record takes from a hint bit-field: the hint
\* flags, the default policy field, and whether each bound is to be read.
DefaultMask ==
    BitOr(HINT_DEFAULT_MINIMUM,
          BitOr(HINT_DEFAULT_LOW, BitOr(HINT_DEFAULT_HIGH, HINT_DEFAULT_0)))

ReadHint(h) == BitAnd(h, ControlHintAll)

ReadDefault(h) ==
    IF BitAnd(h, DefaultMask) = 0 THEN None
    ELSE IF \E v \in DefaultValues : DefaultValue(v) = BitAnd(h, DefaultMask)
         THEN Some(CHOOSE v \in DefaultValues : DefaultValue(v) = BitAnd(h, DefaultMask))
         ELSE Some("unknown")

ReadBound(h, bit, value) == IF BitAnd(h, bit) = bit THEN Some(value) ELSE None

\* The marshaled arrays, once they exist.
Flat == marshaling.flat.val

Marshaled == marshaling.flat # None

\* C11: in every marshaled port range hint the bounded-below bit is set
\* exactly when the port has a lower bound and the bounded-above bit exactly
\* when it has an upper bound, for every hint set and default policy.
C11_BoundedBits ==
    Marshaled
    => \A i \in 1..Len(marshaling.ports) :
          LET port == marshaling.ports[i]
              h == Flat.port_range_hints[i].hint_descriptor
          IN /\ (BitAnd(h, HINT_BOUNDED_BELOW) = HINT_BOUNDED_BELOW)
                    <=> (port.lower_bound # None)
             /\ (BitAnd(h, HINT_BOUNDED_ABOVE) = HINT_BOUNDED_ABOVE)
                    <=> (port.upper_bound # None)

\* C11 happens: a marshaled port with every hint flag, a default policy, a
\* lower bound of zero and no upper bound.
C11_Witness ==
    /\ Marshaled
    /\ \E i \in 1..Len(marshaling.ports) :
          /\ marshaling.ports[i].hint = Some(ControlHintAll)
          /\ marshaling.ports[i].default = Some("Maximum")
          /\ marshaling.ports[i].lower_bound = Some(0)
          /\ marshaling.ports[i].upper_bound = None
          /\ BitAnd(Flat.port_range_hints[i].hint_descriptor, HINT_BOUNDED_BELOW)
                 = HINT_BOUNDED_BELOW

\* C12: reading the marshaled arrays back gives, for every port, its hint
\* set, its default policy or none, and its bounds (a present bound stored
\* as it is, an absent one stored as zero with its bit clear); and the three
\* arrays have one entry per port, entry i made from port i.
C12_RoundTrip ==
    Marshaled
    => /\ Flat.port_count = Len(marshaling.ports)
       /\ Len(Flat.port_descriptors) = Flat.port_count
       /\ Len(Flat.port_names) = Flat.port_count
       /\ Len(Flat.port_range_hints) = Flat.port_count
       /\ \A i \in 1..Len(marshaling.ports) :
             LET port == marshaling.ports[i]
                 hint == Flat.port_range_hints[i]
                 h == hint.hint_descriptor
             IN /\ Flat.port_descriptors[i] = PortDescriptor(port.desc)
                /\ Flat.port_names[i] = port.name \o <<0>>
                /\ ReadHint(h) = (IF port.hint = None THEN 0 ELSE port.hint.val)
                /\ ReadDefault(h) = port.default
                /\ ReadBound(h, HINT_BOUNDED_BELOW, hint.lower_bound) = port.lower_bound
                /\ ReadBound(h, HINT_BOUNDED_ABOVE, hint.upper_bound) = port.upper_bound
                /\ port.lower_bound = None => hint.lower_bound = 0
                /\ port.upper_bound = None => hint.upper_bound = 0

\* C12 happens: a marshaled list of several different ports, one with hint
\* flags, a default policy, a present bound and an absent one.
C12_Witness ==
    /\ Marshaled
    /\ Flat.port_count = MaxPorts
    /\ Flat.port_descriptors[1] # Flat.port_descriptors[2]
    /\ \E i \in 1..Len(marshaling.ports) :
          /\ marshaling.ports[i].hint = Some(BitOr(HINT_TOGGLED, HINT_INTEGER))
          /\ marshaling.ports[i].default = Some("Value100")
          /\ marshaling.ports[i].lower_bound = None
          /\ marshaling.ports[i].upper_bound = Some(MaxBound)

\* The calls that reach into the plugin object of a handle.
PluginCalls == {"activate", "run", "deactivate"}

\* Some declared port of the handle has never been bound.
Incomplete(handle) == \E k \in DOMAIN handle.supplied : handle.supplied[k] = NULL

\* C13: a run or activate made before every declared port of the instance
\* is connected is a fatal condition: it is not dispatched to plugin code.
C13_OutOfOrderFatal ==
    (lastOp.op \in {"run", "activate"} /\ Incomplete(handles[lastOp.h]))
    => /\ ~lastOp.called
       /\ crashed

\* C14: connect_port with a port index at or past the declared port count
\* panics and leaves every handle, binding table and ports list included,
\* as it was.
C14_OutOfRangeBindsNothing ==
    [][(/\ lastOp'.op = "connect_port"
        /\ lastOp'.arg >= Len(handles[lastOp'.h].descriptor.ports))
       => /\ crashed'
          /\ lastOp'.fault
          /\ handles' = handles]_vars

\* C14 happens: connect_port was called with the port count as index on a
\* handle that has a port bound, and panicked.
C14_Witness ==
    /\ lastOp.op = "connect_port"
    /\ lastOp.arg = Len(handles[lastOp.h].descriptor.ports)
    /\ crashed
    /\ BoundPorts(handles[lastOp.h]) # {}

\* C15: a fault of the plugin's code in activate, run or deactivate is
\* contained: the call returns, the handle keeps its bound ports, their
\* pointers, its ports list and its plugin object, and the call the host
\* makes next on the handle is dispatched (cleanup drops the handle).
C15_FaultDegradesOneCall ==
    [][/\ (lastOp'.op \in PluginCalls /\ lastOp'.fault)
          => LET before == handles[lastOp'.h]
                 after == handles'[lastOp'.h]
             IN /\ ~crashed'
                /\ after.alive /\ after.plugin = before.plugin
                /\ BoundPorts(after) = BoundPorts(before)
                /\ \A k \in DOMAIN before.port_map :
                       after.port_map[k].ptr = before.port_map[k].ptr
                /\ after.ports = before.ports
                /\ after.supplied = before.supplied
       /\ (lastOp.op \in PluginCalls /\ lastOp.fault /\ lastOp'.h = lastOp.h)
          => /\ (lastOp'.op \in PluginCalls /\ ~lastOp'.fault)
                => (lastOp'.called /\ ~crashed' /\ handles'[lastOp'.h].alive)
             /\ (lastOp'.op = "cleanup")
                => (~crashed' /\ ~handles'[lastOp'.h].alive)]_vars

\* C15 happens: a run dispatched with the full ports list right after a
\* fault in activate or deactivate on the same handle.
C15_Witness ==
    /\ lastOp.op = "run" /\ lastOp.prior = "fault"
    /\ ~lastOp.fault /\ lastOp.called
    /\ lastOp.views # <<>>
    /\ ~crashed

\* The example's last call was a run that returned from the plugin's code,
\* on an activated instance.
RanActivated(kind) ==
    /\ fixture.kind = kind
    /\ fixture.activated
    /\ lastOp.op = "run" /\ ~lastOp.fault

\* C16: on the activated delay plugin a run with both delays 0 and both
\* dry/wet controls 1 writes to each output sample the input sample of the
\* same position.
C16_DelayFeedThrough ==
    (/\ RanActivated("delay")
     /\ fixture.controls.delay = <<0, 0>>
     /\ fixture.controls.dry_wet = <<1, 1>>)
    => fixture.out = fixture.inp

\* C17: on the activated delay plugin a run with both dry/wet controls 0
\* writes to each output sample the input sample processed delay seconds
\* before it, and zero where that lies before the activate.
C17_DelayedOutput ==
    (/\ RanActivated("delay")
     /\ fixture.controls.dry_wet = <<0, 0>>)
    => \A i \in 1..Len(fixture.out), ch \in {1, 2} :
          LET at == Len(fixture.history) - Len(fixture.inp) + i
              from == at - fixture.controls.delay[ch] * fixture.plugin.sample_rate
          IN fixture.out[i][ch] = IF from >= 1 THEN fixture.history[from][ch] ELSE 0

\* The plugin object right after activate, and after it has then processed
\* the samples of h: a function of h alone.
StateAfter(kind, h) ==
    IF kind = "delay"
    THEN LET buf_len == SampleRate * MAX_DELAY + 1
         IN [sample_rate |-> SampleRate,
             buf |-> [k \in 1..buf_len |->
                        LET js == {j \in 1..Len(h) : (j - 1) % buf_len = k - 1}
                        IN IF js = {} THEN <<0, 0>>
                           ELSE h[CHOOSE j \in js : \A j2 \in js : j2 <= j]],
             buf_idx |-> Len(h) % buf_len]
    ELSE [time |-> Len(h), sample_rate |-> SampleRate]

\* C18: activate is forwarded to the plugin and leaves the delay with a
\* buffer of zeros and write index 0, the ring modulator with time 0; from
\* then on the plugin object, and what a run writes, are determined by the
\* samples and controls given since that activate.
C18_ActivateResets ==
    /\ [][lastOp'.op = "activate"
          => /\ lastOp'.called /\ ~lastOp'.fault
             /\ fixture'.plugin = StateAfter(fixture.kind, <<>>)]_vars
    /\ [](fixture.activated
          => fixture.plugin = StateAfter(fixture.kind, fixture.history))
    /\ [](\A kind \in {"delay", "ringmod"} :
            RanActivated(kind)
            => LET before == SubSeq(fixture.history, 1,
                                    Len(fixture.history) - Len(fixture.inp))
               IN fixture.out
                    = PluginRun(kind, StateAfter(kind, before), Len(fixture.inp),
                                fixture.inp, fixture.controls).val.output)

\* C18 happens: the delay plugin, activated again after it had processed
\* samples, has run on a block with its whole output read from the buffer.
C18_Witness ==
    /\ RanActivated("delay")
    /\ fixture.reactivated
    /\ fixture.controls.dry_wet = <<1, 1>>
    /\ fixture.controls.delay = <<MaxDelay, MaxDelay>>
    /\ Len(fixture.out) = MaxBlock

\* C19: a host call on one handle leaves every other handle (plugin object,
\* binding table, ports list) and the descriptor records exactly as they
\* were.
C19_HandlesIsolated ==
    [][/\ \A h \in 1..Len(handles) : lastOp'.h # h => handles'[h] = handles[h]
       /\ table' = table]_vars

\* C19 happens: a run on one handle with its ports list exposed while the
\* other handle, made from the same descriptor, has its own ports bound to
\* other pointers.
C19_Witness ==
    /\ lastOp.op = "run" /\ lastOp.h = 1 /\ lastOp.views # <<>>
    /\ handles[2].alive
    /\ handles[2].descriptor = handles[1].descriptor
    /\ handles[2].ports # <<>>
    /\ \A k \in DOMAIN handles[1].port_map :
           handles[1].port_map[k] # handles[2].port_map[k]

\* C20: cleanup frees the plugin object and the Handle of the instance and
\* nothing else: no buffer of the host, no part of the registry; the
\* descriptor records and the other handles stay as they were.
C20_CleanupFrame ==
    [][lastOp'.op = "cleanup"
       => /\ freeLog' = freeLog \o HandleAllocs(lastOp'.h)
          /\ \A i \in 1..Len(freeLog') : freeLog'[i].what # "host_buffer"
          /\ ~handles'[lastOp'.h].alive
          /\ handles'[lastOp'.h].plugin = "dropped"
          /\ BoundPorts(handles'[lastOp'.h]) = {}
          /\ \A h \in 1..Len(handles) : h # lastOp'.h => handles'[h] = handles[h]
          /\ table' = table /\ DESCRIPTORS' = DESCRIPTORS
          /\ allocLog' = allocLog]_vars

\* C20 happens: cleanup of a handle right after one of its ports was bound
\* again to another of the host's buffers.
C20_Witness ==
    /\ lastOp.op = "cleanup" /\ lastOp.prior = "rebind"
    /\ ~handles[lastOp.h].alive
    /\ Len(freeLog) = 2

\* C21: in the marshaled hints a default policy that refers to a bound comes
\* with that bound: minimum with the bounded-below bit, maximum with the
\* bounded-above bit, low, middle and high with both.
C21_DefaultHasBound ==
    Marshaled
    => \A i \in 1..Len(marshaling.ports) :
          LET h == Flat.port_range_hints[i].hint_descriptor
              below == BitAnd(h, HINT_BOUNDED_BELOW) = HINT_BOUNDED_BELOW
              above == BitAnd(h, HINT_BOUNDED_ABOVE) = HINT_BOUNDED_ABOVE
          IN /\ ReadDefault(h) = Some("Minimum") => below
             /\ ReadDefault(h) = Some("Maximum") => above
             /\ ReadDefault(h) \in {Some("Low"), Some("Middle"), Some("High")}
                    => (below /\ above)

\* A port descriptor value with one direction bit and one type bit.
OneOfFourKinds(desc) ==
    /\ (BitAnd(desc, PORT_INPUT) = PORT_INPUT) # (BitAnd(desc, PORT_OUTPUT) = PORT_OUTPUT)
    /\ (BitAnd(desc, PORT_CONTROL) = PORT_CONTROL) # (BitAnd(desc, PORT_AUDIO) = PORT_AUDIO)

\* C22: every port of every descriptor record in the registry, and every
\* port bound in a handle, has one of the four kinds: one direction bit and
\* one type bit.
C22_FourKinds ==
    /\ \A i \in 1..Len(table) : \A j \in 1..table[i].port_count :
           OneOfFourKinds(table[i].port_descriptors[j])
    /\ \A h \in Live : \A k \in BoundPorts(handles[h]) :
           OneOfFourKinds(PortDescriptor(handles[h].port_map[k].kind))

\* C23: a ports list that is exposed has one entry per declared port, and
\* entry i is the connection port i has now: of port i's kind, over the
\* pointer the host gave last for port i; so is the list run hands over.
C23_PortsIndexStable ==
    /\ \A h \in Live :
          LET handle == handles[h]
              view == PortsView(handle.port_map, handle.ports)
          IN handle.ports # <<>>
             => /\ Len(handle.ports) = Len(handle.descriptor.ports)
                /\ \A i \in 1..Len(handle.ports) :
                      /\ view[i] = handle.port_map[i - 1]
                      /\ view[i].kind = handle.descriptor.ports[i]
                      /\ view[i].ptr = handle.supplied[i - 1]
    /\ (lastOp.op = "run" /\ lastOp.views # <<>>)
       => /\ Len(lastOp.views) = Len(handles[lastOp.h].descriptor.ports)
          /\ \A i \in 1..Len(lastOp.views) :
                /\ lastOp.views[i].kind = handles[lastOp.h].descriptor.ports[i]
                /\ lastOp.views[i].ptr = handles[lastOp.h].supplied[i - 1]

\* C23 happens: the list of a two-port handle was completed by the first
\* binding of port 0, port 1 bound before it, to another buffer.
C23_Witness ==
    /\ lastOp.op = "connect_port" /\ ~lastOp.fault
    /\ lastOp.arg = 0 /\ lastOp.result = NULL
    /\ Len(handles[lastOp.h].ports) = 2
    /\ handles[lastOp.h].supplied[1] # handles[lastOp.h].supplied[0]

AcquiredAt(a) == CHOOSE k \in 1..Len(allocLog) : allocLog[k] = a

\* C25: the exit hook frees in the reverse of the order of acquisition: of
\* two allocations it frees, the one freed first was acquired last.
C25_ReverseOrderTeardown ==
    exited
    => \A i, j \in 1..Len(freeLog) :
          i < j => AcquiredAt(freeLog[i]) > AcquiredAt(freeLog[j])

\* C26: the exit hook is registered more than once, or a second table is
\* boxed, only if a thread found the registry null while another thread was
\* between its own null check and its store; with no such overlap the hook
\* is registered at most once and one table is boxed.
C26_RaceNeedsOverlap ==
    /\ ~threads.overlap => (atexitCount <= 1 /\ Len(threads.boxes) <= 1)
    /\ Len(threads.pc) = 1 => ~threads.overlap
    /\ atexitCount <= Len(threads.pc)

\* C26 happens: two threads have made the first call at once; the hook is
\* registered twice, and the table one of them boxed, with the descriptor it
\* cached there, is no longer the one DESCRIPTORS points to.
C26_Witness ==
    /\ threads.overlap
    /\ atexitCount = 2
    /\ \A t \in DOMAIN threads.pc : threads.pc[t] = "done"
    /\ \E k \in 1..Len(threads.boxes) : k # DESCRIPTORS /\ threads.boxes[k] # <<>>

\* C27: a call of ladspa_descriptor for a cached index does not call the
\* factory and leaves the table as it is; before exit a step adds at most one
\* entry to the table and leaves every entry it had in its slot, unmodified;
\* instantiate, connect_port, activate, run, deactivate and cleanup leave the
\* table as it is.
C27_RegistryFrame ==
    [][/\ Len(table') \in {Len(table), Len(table) + 1}
       /\ \A i \in 1..Len(table) : table'[i] = table[i]
       /\ lastOp'.op # "descriptor_for" => table' = table
       /\ (lastOp'.op = "descriptor_for" /\ IsCached(lastOp'.arg, table))
              => (~lastOp'.called /\ table' = table)
       /\ (lastOp'.op = "descriptor_for" /\ ~lastOp'.called) => table' = table]_vars

\* C27 happens: with an instance alive and a port of it bound, a call of
\* ladspa_descriptor has been answered from a table of two entries without
\* calling the factory.
C27_Witness ==
    /\ lastOp.op = "descriptor_for"
    /\ ~lastOp.called
    /\ lastOp.result # NULL
    /\ Len(table) >= 2
    /\ \E h \in Live : \E k \in DOMAIN handles[h].port_map :
          handles[h].port_map[k] # Unbound

\* C28: the view of a bound audio port is empty from the call that binds it
\* until the next run, and from a run of n samples until it is bound again
\* it is n samples long. Step by step: connect_port leaves the port it binds
\* with an empty view and every other port of the instance as it was;
\* activate and deactivate leave every port as it was; run gives every bound
\* audio port a view of its sample count, and changes neither the pointer of
\* a port nor anything of a control port.
C28_ViewLengths ==
    [][\A h \in Live :
          LET before == handles[h].port_map
              after == handles'[h].port_map
          IN lastOp'.h = h =>
               /\ (lastOp'.op = "connect_port" /\ ~lastOp'.fault) =>
                     /\ after[lastOp'.arg].len = 0
                     /\ after[lastOp'.arg].ptr = lastOp'.ptr
                     /\ \A k \in DOMAIN before : k # lastOp'.arg => after[k] = before[k]
               /\ lastOp'.op \in {"activate", "deactivate"} => after = before
               /\ lastOp'.op = "run" =>
                     /\ DOMAIN after = DOMAIN before
                     /\ \A k \in DOMAIN before :
                           /\ after[k].ptr = before[k].ptr
                           /\ after[k].kind = before[k].kind
                           /\ before[k].kind \in AudioKinds => after[k].len = lastOp'.arg
                           /\ before[k].kind \notin AudioKinds => after[k] = before[k]]_vars

\* C28 happens: after a run of one sample a port has been bound, and its
\* view is empty while the view of another audio port of the same instance
\* is still one sample long.
C28_Witness ==
    /\ lastOp.op = "connect_port"
    /\ ~lastOp.fault
    /\ lastOp.h \in Live
    /\ LET port_map == handles[lastOp.h].port_map
       IN /\ port_map[lastOp.arg].len = 0
          /\ \E k \in DOMAIN port_map :
                /\ k # lastOp.arg
                /\ port_map[k].kind \in AudioKinds
                /\ port_map[k].len = 1

\* The state the instances start from is one the whole program reaches:
\* TLC finds this violated under Spec, by probing 0 .. Probed-1 in turn.
ProbedNeverReached == ~InitProbed

====
